---- MODULE Spec2Model ----
(***************************************************************************)
(* Salon booking core of the Yuki backend (routes/booking.js and the       *)
(* Booking / ArtistAvailability / Artist / Location models).               *)
(*                                                                         *)
(* Strings the code inspects character by character (ids, dates, times)    *)
(* are sequences of one-character strings.  A JavaScript value of a        *)
(* request field is a record [type, chars] so that `typeof` and            *)
(* falsiness can be computed.  Each handler is cut at its awaits: one      *)
(* action per database round trip, with the synchronous code that follows  *)
(* the await inside the same action.                                       *)
(***************************************************************************)
EXTENDS Integers, Sequences, FiniteSets, TLC

\* ------------------------------------------------------------------ bounds
MaxReqs == 2      \* booking requests in one run
MaxFaults == 1    \* injected datastore faults in one run
SeedDays == 1     \* days of availability the demo seeding has created (7 in the source)

\* --------------------------------------------------------- JavaScript values
Str(s) == [type |-> "string", chars |-> s]
Undefined == [type |-> "undefined", chars |-> <<>>]

Falsy(v) == v.type = "undefined" \/ v.chars = <<>>

Rep(c, n) == [i \in 1..n |-> c]

Digits == {"0", "1", "2", "3", "4", "5", "6", "7", "8", "9"}
HexChars == Digits \cup {"a", "b", "c", "d", "e", "f"}

\* mongoose.Types.ObjectId.isValid on a request field: a 24 character hex string
isValidObjectId(v) ==
    /\ v.type = "string"
    /\ Len(v.chars) = 24
    /\ \A i \in 1..24 : v.chars[i] \in HexChars

\* /^\d{4}-\d{2}-\d{2}$/.test(s)
DateRegex(s) ==
    /\ Len(s) = 10
    /\ \A i \in {1, 2, 3, 4, 6, 7, 9, 10} : s[i] \in Digits
    /\ s[5] = "-"
    /\ s[8] = "-"

\* /^\d{2}:?\d{2}$/.test(s): the colon made optional
TimeRegexOptionalColon(s) ==
    LET t == SelectSeq(s, LAMBDA c : c # ":")
    IN Len(s) \in {4, 5} /\ Len(t) = 4 /\ \A i \in 1..4 : t[i] \in Digits

\* /^\d{2}:\d{2}$/.test(s)
TimeRegex(s) ==
    /\ Len(s) = 5
    /\ \A i \in {1, 2, 4, 5} : s[i] \in Digits
    /\ s[3] = ":"

\* ------------------------------------------------------------ demo data
\* ObjectIds of the documents ensureDemoData creates
central == Rep("a", 23) \o <<"1">>
riverside == Rep("a", 23) \o <<"2">>
naraa == Rep("b", 23) \o <<"1">>
temuujin == Rep("b", 23) \o <<"2">>
khishgee == Rep("b", 23) \o <<"3">>
\* ObjectIds of two registered users
userA == Rep("c", 23) \o <<"1">>
userB == Rep("c", 23) \o <<"2">>

slotTemplate ==
    << <<"1", "0", ":", "0", "0">>,
       <<"1", "1", ":", "3", "0">>,
       <<"1", "4", ":", "0", "0">>,
       <<"1", "6", ":", "0", "0">>,
       <<"1", "8", ":", "0", "0">> >>

\* date.toISOString().slice(0, 10) of the day `index` days after the seeding day
isoDate(index) ==
    <<"2", "0", "2", "4", "-", "0", "6", "-", "0">>
        \o << <<"1", "2", "3", "4", "5", "6", "7", "8", "9">>[index + 1] >>

seedLocations == {central, riverside}

seedArtists ==
    { [_id |-> naraa, locations |-> {central}, active |-> TRUE],
      [_id |-> temuujin, locations |-> {central, riverside}, active |-> TRUE],
      [_id |-> khishgee, locations |-> {riverside}, active |-> TRUE] }

seedAvailability ==
    { [location |-> t[2], artist |-> t[1]._id, date |-> isoDate(t[3]),
       slots |-> [k \in DOMAIN slotTemplate |->
                     [time |-> slotTemplate[k], isBooked |-> FALSE]]]
      : t \in { u \in seedArtists \X seedLocations \X (0..(SeedDays - 1)) :
                  u[2] \in u[1].locations } }

\* ------------------------------------------------------------ request inputs
\* Authorization header: absent, a token jwt.verify rejects, a user token
\* ({phone, userId}) or an admin token ({adminId, role}, no userId).
NoToken == [present |-> FALSE, verifies |-> FALSE, userId |-> Undefined]
BadToken == [present |-> TRUE, verifies |-> FALSE, userId |-> Undefined]
UserToken(u) == [present |-> TRUE, verifies |-> TRUE, userId |-> Str(u)]
AdminToken == [present |-> TRUE, verifies |-> TRUE, userId |-> Undefined]

unlistedTime == <<"0", "9", ":", "0", "0">>
unseededDate == isoDate(8)

BaseBody ==
    [locationId |-> Str(central), artistId |-> Str(temuujin),
     date |-> Str(isoDate(0)), time |-> Str(slotTemplate[1])]

\* well-formed bodies: a slot, the same instant at temuujin's other location,
\* another slot of the same record, a time the record does not list, a day
\* without a record, an artist who does not serve the location
GoodBodies ==
    { BaseBody,
      [BaseBody EXCEPT !.locationId = Str(riverside)],
      [BaseBody EXCEPT !.time = Str(slotTemplate[2])],
      [BaseBody EXCEPT !.time = Str(unlistedTime)],
      [BaseBody EXCEPT !.date = Str(unseededDate)],
      [BaseBody EXCEPT !.artistId = Str(naraa), !.locationId = Str(riverside)] }

\* bodies with exactly one malformed field
BadBodies ==
    { [BaseBody EXCEPT !.locationId = Undefined],
      [BaseBody EXCEPT !.locationId = Str(<<"x", "y", "z">>)],
      [BaseBody EXCEPT !.artistId = Str(Rep("a", 23))],
      [BaseBody EXCEPT !.date = Undefined],
      [BaseBody EXCEPT !.date = Str(<<"2", "0", "2", "4", "/", "0", "6", "/", "0", "1">>)],
      [BaseBody EXCEPT !.time = Str(<<"1", "0", "0", "0">>)] }

Inputs ==
    { [token |-> UserToken(userA), body |-> b] : b \in GoodBodies \cup BadBodies }
    \cup { [token |-> t, body |-> BaseBody] : t \in {NoToken, BadToken, AdminToken} }

\* ------------------------------------------------------------------- state
VARIABLES
    locationDocs,       \* Location collection: the _ids present
    artistDocs,         \* Artist collection: [_id, locations, active]
    availabilityDocs,   \* ArtistAvailability collection: [location, artist, date, slots]
    bookingDocs,        \* Booking collection, in creation order
    reqs,               \* POST / requests in arrival order, each with its position
    faults,             \* datastore faults injected so far
    gets,               \* GET /availability requests in arrival order
    hists,              \* GET /history requests in arrival order
    seeding,            \* ensureDemoData: seedingPromise and the position of its run
    tz,                 \* the server's time zone: -1 west of UTC, 0 UTC, 1 east of UTC
    now,                \* the server's clock (Date.now())
    inflight,           \* runs in flight of each memoized initializer
    awaiting,           \* callers that were handed the promise of a run in flight
    ensure,             \* ensureAdminUser, per copy: ensureAdminPromise and its run
    adminUserDocs,      \* AdminUser collection: [phone, passwordHash]
    userDocs,           \* User collection, the admin's entry: [phone, passwordHash]
    adminRuns,          \* runs of ensureAdminUser started so far, in both copies
    env,                \* process.env: ADMIN_PASSWORD as the setup copy reads it
    dels                \* DELETE /artists/:artistId requests in arrival order

\* the admin bootstrap, which no route of booking.js touches
adminState == <<ensure, adminUserDocs, userDocs, adminRuns, env>>

vars == <<locationDocs, artistDocs, availabilityDocs, bookingDocs, reqs, faults,
          gets, hists, seeding, tz, now, inflight, awaiting, adminState, dels>>

\* what the POST / handler neither reads nor writes
notPost == <<gets, hists, seeding, tz, inflight, awaiting, adminState, dels>>

\* let seedingPromise = null
NotSeeding == [promise |-> FALSE, pc |-> "idle"]

\* the memoized initializers: ensureDemoData of routes/booking.js, and
\* ensureAdminUser of routes/admin.js and of services/admin-setup
AdminCopies == {"route", "setup"}
Initializers == {"demo"} \cup AdminCopies

\* let ensureAdminPromise = null
NotEnsuring == [promise |-> FALSE, pc |-> "idle", run |-> 0, passwordHash |-> <<>>]

\* ADMIN_PHONE and ADMIN_PASSWORD of routes/admin.js, the defaults of admin-setup
AdminPhone == <<"+", "9", "7", "6", "9", "9", "1", "1", "3", "7", "6", "9">>
DefaultPassword == "admin123"

\* bcrypt.hash(password, rounds): a hash of the password under a fresh salt
Hash(password, salt) == <<password, salt>>

\* the process after its start-up: no initializer running, the admin account
\* and the admin's user created by the start-up run of ensureAdminUser
AfterStartup ==
    /\ inflight = [n \in Initializers |-> 0]
    /\ awaiting = [n \in Initializers |-> 0]
    /\ ensure = [c \in AdminCopies |-> NotEnsuring]
    /\ adminUserDocs = {[phone |-> AdminPhone, passwordHash |-> Hash(DefaultPassword, 0)]}
    /\ userDocs = {[phone |-> AdminPhone, passwordHash |-> Hash(DefaultPassword, 0)]}
    /\ adminRuns = 0
    /\ env = [ADMIN_PASSWORD |-> DefaultPassword]
    /\ dels = <<>>

Res(status, error) == [status |-> status, error |-> error]
NoRes == Res(0, "")

Init ==
    /\ locationDocs = seedLocations
    /\ artistDocs = seedArtists
    /\ availabilityDocs = seedAvailability
    /\ bookingDocs = <<>>
    /\ reqs = <<>>
    /\ faults = 0
    /\ gets = <<>>
    /\ hists = <<>>
    /\ seeding = NotSeeding
    /\ AfterStartup
    /\ tz = 0
    /\ now = 0

\* ------------------------------------------------------- POST / (booking.js)
\* requireAuth: no token, or a token verifyToken throws on, answers 401
requireAuth(token) ==
    IF ~token.present THEN Res(401, "auth_required")
    ELSE IF ~token.verifies THEN Res(401, "login_required")
    ELSE NoRes

\* the four input checks at the head of the handler, in order
Validate(body) ==
    IF Falsy(body.locationId) \/ ~isValidObjectId(body.locationId)
        THEN Res(400, "bad_location")
    ELSE IF Falsy(body.artistId) \/ ~isValidObjectId(body.artistId)
        THEN Res(400, "bad_artist")
    ELSE IF body.date.type # "string" \/ ~DateRegex(body.date.chars)
        THEN Res(400, "bad_date")
    ELSE IF body.time.type # "string" \/ ~TimeRegex(body.time.chars)
        THEN Res(400, "bad_time")
    ELSE NoRes

Finish(r, res) == [r EXCEPT !.pc = "done", !.res = res]

NewRequest(in) ==
    [token |-> in.token, body |-> in.body, pc |-> "lookup", res |-> NoRes,
     claimed |-> FALSE,       \* `availability` is non-null
     slotState |-> "none",    \* what the claim found: free, reserved, missing, norecord
     booking |-> 0,           \* index of the Booking this request created
     threw |-> "none",        \* what sent it to the catch block: fault, duplicate
     threwAt |-> "none",      \* the await that threw: lookup, claim, create, populate
     dbOps |-> 0]             \* database round trips issued

\* a request arrives: requireAuth, then the synchronous validation
Receive(in) ==
    /\ Len(reqs) < MaxReqs
    /\ LET r == NewRequest(in)
           a == requireAuth(in.token)
           v == Validate(in.body)
       IN reqs' = Append(reqs, IF a # NoRes THEN Finish(r, a)
                               ELSE IF v # NoRes THEN Finish(r, v)
                               ELSE r)
    /\ UNCHANGED <<locationDocs, artistDocs, availabilityDocs, bookingDocs, faults, now>>
    /\ UNCHANGED notPost

\* Location.findById(locationId)
FindLocation(locationId) == locationId \in locationDocs

\* Artist.findOne({ _id: artistId, locations: locationId }): active not asked for
FindArtistAnyActive(artistId, locationId) ==
    \E a \in artistDocs : a._id = artistId /\ locationId \in a.locations

\* Artist.findOne({ _id: artistId, locations: locationId, active: true })
FindArtist(artistId, locationId) ==
    \E a \in artistDocs : a._id = artistId /\ locationId \in a.locations /\ a.active

\* await Promise.all([Location.findById, Artist.findOne]) and the two 404 checks
Lookup(i) ==
    /\ reqs[i].pc = "lookup"
    /\ LET b == reqs[i].body
           r == [reqs[i] EXCEPT !.dbOps = @ + 2]
       IN reqs' = [reqs EXCEPT ![i] =
              IF ~FindLocation(b.locationId.chars)
                  THEN Finish(r, Res(404, "location_not_found"))
              ELSE IF ~FindArtist(b.artistId.chars, b.locationId.chars)
                  THEN Finish(r, Res(404, "artist_not_found"))
              ELSE [r EXCEPT !.pc = "claim"]]
    /\ UNCHANGED <<locationDocs, artistDocs, availabilityDocs, bookingDocs, faults, now>>
    /\ UNCHANGED notPost

\* $elemMatch: { isBooked: false }: the time condition forgotten
ElemMatchAnyTime(slot, time) == slot.isBooked = FALSE

\* $elemMatch: { time }: the isBooked condition forgotten
ElemMatchAnyState(slot, time) == slot.time = time

\* $elemMatch: { time, isBooked: false }
ElemMatch(slot, time) == slot.time = time /\ slot.isBooked = FALSE

\* the filter of findOneAndUpdate
ClaimFilter(doc, artistId, locationId, date, time) ==
    /\ doc.artist = artistId
    /\ doc.location = locationId
    /\ doc.date = date
    /\ \E k \in DOMAIN doc.slots : ElemMatch(doc.slots[k], time)

\* "slots.0.isBooked": the first element of the array, whatever matched
PositionalFirst(doc, time) == 1

\* the array position `$` stands for: the first element the filter matched
Positional(doc, time) ==
    CHOOSE k \in DOMAIN doc.slots :
        /\ ElemMatch(doc.slots[k], time)
        /\ \A j \in 1..(k - 1) : ~ElemMatch(doc.slots[j], time)

\* $set: { "slots.$[].isBooked": true }: every slot of the day marked
SetIsBookedAll(doc, time) ==
    [doc EXCEPT !.slots = [k \in DOMAIN doc.slots |-> [doc.slots[k] EXCEPT !.isBooked = TRUE]]]

\* the matched slot marked and every other slot of the day released
SetIsBookedOnly(doc, time) ==
    [doc EXCEPT !.slots = [k \in DOMAIN doc.slots |->
        [doc.slots[k] EXCEPT !.isBooked = (k = Positional(doc, time))]]]

\* $set: { "slots.$.isBooked": true }
SetIsBooked(doc, time) ==
    [doc EXCEPT !.slots[Positional(doc, time)].isBooked = TRUE]

\* what the slot looked like when the claim ran (recorded, not used by the code)
SlotStateOf(artistId, locationId, date, time) ==
    LET recs == {d \in availabilityDocs :
                    d.artist = artistId /\ d.location = locationId /\ d.date = date}
    IN IF recs = {} THEN "norecord"
       ELSE IF \A d \in recs : \A k \in DOMAIN d.slots : d.slots[k].time # time
           THEN "missing"
       ELSE IF \A d \in recs : \A k \in DOMAIN d.slots :
                   d.slots[k].time = time => d.slots[k].isBooked
           THEN "reserved"
       ELSE "free"

\* answer when findOneAndUpdate returns null
NoAvailabilityAsError == Res(500, "booking_failed")
NoAvailabilityRes == Res(409, "slot_already_booked")

\* answer of the catch block
CatchAsConflict == Res(409, "slot_already_booked")
CatchRes == Res(500, "booking_failed")

\* the code between the claim and Booking.create: the late userId check
AfterClaim(r) ==
    IF Falsy(r.token.userId) \/ ~isValidObjectId(r.token.userId)
        THEN Finish(r, Res(401, "login_required"))
    ELSE [r EXCEPT !.pc = "create"]

\* the null check left out: the handler goes on to create the Booking
OnNoAvailabilityContinue(r) == AfterClaim(r)

\* if (!availability) return res.status(409)
OnNoAvailability(r) == Finish(r, NoAvailabilityRes)

\* the claim written as an insert of the updated copy: the document it
\* matched stays in the collection beside the copy
ClaimByInsert(i) ==
    /\ reqs[i].pc = "claim"
    /\ LET b == reqs[i].body
           r == [reqs[i] EXCEPT
                    !.dbOps = @ + 1,
                    !.slotState = SlotStateOf(b.artistId.chars, b.locationId.chars,
                                              b.date.chars, b.time.chars)]
           matching == {d \in availabilityDocs :
                           ClaimFilter(d, b.artistId.chars, b.locationId.chars,
                                       b.date.chars, b.time.chars)}
       IN IF matching = {}
              THEN /\ reqs' = [reqs EXCEPT ![i] = OnNoAvailability(r)]
                   /\ UNCHANGED availabilityDocs
              ELSE \E d \in matching :
                   /\ availabilityDocs' =
                          availabilityDocs \cup {SetIsBooked(d, b.time.chars)}
                   /\ reqs' = [reqs EXCEPT ![i] = AfterClaim([r EXCEPT !.claimed = TRUE])]
    /\ UNCHANGED <<locationDocs, artistDocs, bookingDocs, faults, now>>
    /\ UNCHANGED notPost

\* await ArtistAvailability.findOneAndUpdate(...), one atomic document update,
\* then the code up to the next await
Claim(i) ==
    /\ reqs[i].pc = "claim"
    /\ LET b == reqs[i].body
           r == [reqs[i] EXCEPT
                    !.dbOps = @ + 1,
                    !.slotState = SlotStateOf(b.artistId.chars, b.locationId.chars,
                                              b.date.chars, b.time.chars)]
           matching == {d \in availabilityDocs :
                           ClaimFilter(d, b.artistId.chars, b.locationId.chars,
                                       b.date.chars, b.time.chars)}
       IN IF matching = {}
              THEN /\ reqs' = [reqs EXCEPT ![i] = OnNoAvailability(r)]
                   /\ UNCHANGED availabilityDocs
              ELSE \E d \in matching :
                   /\ availabilityDocs' =
                          (availabilityDocs \ {d}) \cup {SetIsBooked(d, b.time.chars)}
                   /\ reqs' = [reqs EXCEPT ![i] = AfterClaim([r EXCEPT !.claimed = TRUE])]
    /\ UNCHANGED <<locationDocs, artistDocs, bookingDocs, faults, now>>
    /\ UNCHANGED notPost

\* bookingData of the handler
BookingData(r) ==
    [user |-> r.token.userId.chars,
     location |-> r.body.locationId.chars,
     artist |-> r.body.artistId.chars,
     date |-> r.body.date.chars,
     time |-> r.body.time.chars,
     timeslot |-> r.body.date.chars \o <<"T">> \o r.body.time.chars,
     status |-> "confirmed"]

\* this.timeslot = `${this.date}${this.time}`: the separator left out
setTimeslotNoSeparator(doc) ==
    IF doc.date # <<>> /\ doc.time # <<>>
        THEN [doc EXCEPT !.timeslot = doc.date \o doc.time]
    ELSE doc

\* pre("validate") hook of the Booking schema
setTimeslot(doc) ==
    IF doc.date # <<>> /\ doc.time # <<>>
        THEN [doc EXCEPT !.timeslot = doc.date \o <<"T">> \o doc.time]
    ELSE doc

\* unique index { artist: 1, location: 1, timeslot: 1 }: one key field too many
DuplicateKeyPerLocation(doc) ==
    \E k \in DOMAIN bookingDocs :
        /\ bookingDocs[k].artist = doc.artist
        /\ bookingDocs[k].location = doc.location
        /\ bookingDocs[k].timeslot = doc.timeslot

\* unique index { artist: 1, timeslot: 1 } of the Booking collection
DuplicateKey(doc) ==
    \E k \in DOMAIN bookingDocs :
        bookingDocs[k].artist = doc.artist /\ bookingDocs[k].timeslot = doc.timeslot

\* { timestamps: true } of the Booking schema
Timestamps(doc) ==
    [f \in DOMAIN doc \cup {"createdAt"} |-> IF f = "createdAt" THEN now ELSE doc[f]]

\* await Booking.create(bookingData): E11000 lands in the catch block (500)
Create(i) ==
    /\ reqs[i].pc = "create"
    /\ LET doc == Timestamps(setTimeslot(BookingData(reqs[i])))
           r == [reqs[i] EXCEPT !.dbOps = @ + 1]
       IN IF DuplicateKey(doc)
              THEN /\ reqs' = [reqs EXCEPT ![i] =
                          Finish([r EXCEPT !.threw = "duplicate", !.threwAt = "create"],
                                 CatchRes)]
                   /\ UNCHANGED bookingDocs
              ELSE /\ bookingDocs' = Append(bookingDocs, doc)
                   /\ reqs' = [reqs EXCEPT ![i] =
                          [r EXCEPT !.pc = "populate", !.booking = Len(bookingDocs) + 1]]
    /\ UNCHANGED <<locationDocs, artistDocs, availabilityDocs, faults, now>>
    /\ UNCHANGED notPost

\* return res.json({ success: true, booking }): no status set, so 200
SuccessRes == Res(200, "")

\* await booking.populate(...); return res.json({ success: true, booking })
Populate(i) ==
    /\ reqs[i].pc = "populate"
    /\ reqs' = [reqs EXCEPT ![i] = Finish([@ EXCEPT !.dbOps = @ + 1], SuccessRes)]
    /\ UNCHANGED <<locationDocs, artistDocs, availabilityDocs, bookingDocs, faults, now>>
    /\ UNCHANGED notPost

\* a catch block that marks the Booking the request had created as cancelled
FaultUndoingBooking(i) ==
    /\ reqs[i].pc \in {"lookup", "claim", "create", "populate"}
    /\ faults < MaxFaults
    /\ faults' = faults + 1
    /\ reqs' = [reqs EXCEPT ![i] =
           Finish([@ EXCEPT !.threw = "fault", !.threwAt = reqs[i].pc, !.dbOps = @ + 1],
                  CatchRes)]
    /\ bookingDocs' = IF reqs[i].booking # 0
                          THEN [k \in DOMAIN bookingDocs |->
                                   IF k = reqs[i].booking
                                       THEN [bookingDocs[k] EXCEPT !.status = "cancelled"]
                                   ELSE bookingDocs[k]]
                      ELSE bookingDocs
    /\ UNCHANGED <<locationDocs, artistDocs, availabilityDocs, now>>
    /\ UNCHANGED notPost

\* an awaited database call rejects (datastore fault): the catch block answers 500
Fault(i) ==
    /\ reqs[i].pc \in {"lookup", "claim", "create", "populate"}
    /\ faults < MaxFaults
    /\ faults' = faults + 1
    /\ reqs' = [reqs EXCEPT ![i] =
           Finish([@ EXCEPT !.threw = "fault", !.threwAt = reqs[i].pc, !.dbOps = @ + 1],
                  CatchRes)]
    /\ UNCHANGED <<locationDocs, artistDocs, availabilityDocs, bookingDocs, now>>
    /\ UNCHANGED notPost

Next ==
    \/ \E in \in Inputs : Receive(in)
    \/ \E i \in DOMAIN reqs : Lookup(i)
    \/ \E i \in DOMAIN reqs : Claim(i)
    \/ \E i \in DOMAIN reqs : Create(i)
    \/ \E i \in DOMAIN reqs : Populate(i)
    \/ \E i \in DOMAIN reqs : Fault(i)

Spec == Init /\ [][Next]_vars

TypeOK ==
    /\ faults \in 0..MaxFaults
    /\ Len(reqs) <= MaxReqs

\* ------------------------------------------------------------- properties
Done(i) == reqs[i].pc = "done"
Quiescent == \A i \in DOMAIN reqs : Done(i)

\* the request passed requireAuth and the four input checks
PassedValidation(i) ==
    requireAuth(reqs[i].token) = NoRes /\ Validate(reqs[i].body) = NoRes

\* the request names a slot that the seeded data lists (and so starts free)
TargetsSeededSlot(i) ==
    \E d \in seedAvailability :
        /\ d.artist = reqs[i].body.artistId.chars
        /\ d.location = reqs[i].body.locationId.chars
        /\ d.date = reqs[i].body.date.chars
        /\ \E k \in DOMAIN d.slots : d.slots[k].time = reqs[i].body.time.chars

\* the requests that pass validation and name the same slot as request i
SameSlot(i) ==
    {j \in DOMAIN reqs : PassedValidation(j) /\ reqs[j].body = reqs[i].body}

\* the reserved slots, as <<record, position>> pairs
ReservedSlots ==
    {p \in UNION {{<<d, k>> : k \in DOMAIN d.slots} : d \in availabilityDocs} :
        p[1].slots[p[2]].isBooked}

\* the slot request i names is marked reserved
TargetReserved(i) ==
    \E p \in ReservedSlots :
        /\ p[1].artist = reqs[i].body.artistId.chars
        /\ p[1].location = reqs[i].body.locationId.chars
        /\ p[1].date = reqs[i].body.date.chars
        /\ p[1].slots[p[2]].time = reqs[i].body.time.chars

\* C1: of N >= 2 requests that pass validation and name the same initially
\* free slot, once all are answered (none cut short by a datastore fault)
\* exactly one has claimed the slot and every other one was answered 409.
C1_ExactlyOneClaimWins ==
    \A i \in DOMAIN reqs :
        LET R == SameSlot(i)
        IN (/\ i \in R
            /\ TargetsSeededSlot(i)
            /\ Cardinality(R) >= 2
            /\ \A j \in R : Done(j) /\ reqs[j].threw # "fault")
           => /\ Cardinality({j \in R : reqs[j].claimed}) = 1
              /\ \A j \in R : ~reqs[j].claimed => reqs[j].res.status = 409

C1_Witness ==
    \E i, j \in DOMAIN reqs :
        /\ i # j
        /\ j \in SameSlot(i)
        /\ TargetsSeededSlot(i)
        /\ Done(i) /\ Done(j)
        /\ reqs[i].claimed
        /\ reqs[j].res.status = 409

\* C2: no two Booking documents share the same (artist, timeslot).
C2_UniqueArtistTimeslot ==
    \A m, n \in DOMAIN bookingDocs :
        m # n => ~(/\ bookingDocs[m].artist = bookingDocs[n].artist
                   /\ bookingDocs[m].timeslot = bookingDocs[n].timeslot)

\* a second request for the same artist and instant, at the other location,
\* was turned down by the index
C2_Witness ==
    /\ Len(bookingDocs) = 1
    /\ \E i \in DOMAIN reqs :
        /\ reqs[i].threw = "duplicate"
        /\ reqs[i].body.locationId.chars # bookingDocs[1].location
        /\ reqs[i].body.artistId.chars = bookingDocs[1].artist

\* the reserved slots with the artist, date and time of a booking
SlotsOfBooking(b) ==
    {p \in ReservedSlots :
        /\ p[1].artist = b.artist
        /\ p[1].date = b.date
        /\ p[1].slots[p[2]].time = b.time}

\* C3: with no fault injected and every request answered, every confirmed
\* Booking has exactly one reserved slot with its artist, date and time.
C3_ConfirmedHasOneReservedSlot ==
    (faults = 0 /\ Quiescent) =>
        \A n \in DOMAIN bookingDocs :
            bookingDocs[n].status = "confirmed"
                => Cardinality(SlotsOfBooking(bookingDocs[n])) = 1

\* C4: with no fault injected and every request answered, every reserved slot
\* has a confirmed Booking with its artist, date and time.
C4_ReservedHasBooking ==
    (faults = 0 /\ Quiescent) =>
        \A p \in ReservedSlots :
            \E n \in DOMAIN bookingDocs :
                /\ bookingDocs[n].status = "confirmed"
                /\ bookingDocs[n].artist = p[1].artist
                /\ bookingDocs[n].date = p[1].date
                /\ bookingDocs[n].time = p[1].slots[p[2]].time

\* the requests whose claim (findOneAndUpdate) succeeded on record d
ClaimsOn(d) ==
    {i \in DOMAIN reqs :
        /\ reqs[i].claimed
        /\ reqs[i].body.artistId.chars = d.artist
        /\ reqs[i].body.locationId.chars = d.location
        /\ reqs[i].body.date.chars = d.date}

\* C5: in every AvailabilityRecord the number of reserved slots equals the
\* number of successful claims made against that record.
C5_ReservedEqualsClaims ==
    \A d \in availabilityDocs :
        Cardinality({k \in DOMAIN d.slots : d.slots[k].isBooked})
            = Cardinality(ClaimsOn(d))

\* a record with a reserved slot on which another claim attempt has failed
C5_Witness ==
    \E d \in availabilityDocs :
        /\ Cardinality(ClaimsOn(d)) = 1
        /\ \E i \in DOMAIN reqs :
            /\ ~reqs[i].claimed
            /\ reqs[i].res.status = 409
            /\ reqs[i].body.artistId.chars = d.artist
            /\ reqs[i].body.locationId.chars = d.location
            /\ reqs[i].body.date.chars = d.date

\* C6: a request whose claim found no matching free slot (slot reserved, time
\* not listed, or no record for the day) is answered 409, never 500, and has
\* created no Booking.
C6_NoFreeSlotIsConflict ==
    \A i \in DOMAIN reqs :
        reqs[i].slotState \in {"reserved", "missing", "norecord"}
            => /\ Done(i)
               /\ reqs[i].res.status = 409
               /\ reqs[i].booking = 0
               /\ reqs[i].threw = "none"

C6_Witness ==
    \E i \in DOMAIN reqs :
        reqs[i].slotState = "reserved" /\ reqs[i].res.status = 409

\* a Booking for exactly the slot request i names
BookingForTarget(i) ==
    \E n \in DOMAIN bookingDocs :
        /\ bookingDocs[n].artist = reqs[i].body.artistId.chars
        /\ bookingDocs[n].location = reqs[i].body.locationId.chars
        /\ bookingDocs[n].date = reqs[i].body.date.chars
        /\ bookingDocs[n].time = reqs[i].body.time.chars

\* C7: when Booking.create fails after the claim succeeded (duplicate key or
\* datastore fault), the claimed slot stays reserved, no Booking exists for
\* it, and the caller is answered 500.
C7_FailedCreateLeavesSlotReserved ==
    \A i \in DOMAIN reqs :
        reqs[i].threwAt = "create"
            => /\ reqs[i].claimed
               /\ TargetReserved(i)
               /\ ~BookingForTarget(i)
               /\ reqs[i].booking = 0
               /\ reqs[i].res.status = 500

C7_Witness ==
    \E i \in DOMAIN reqs :
        reqs[i].threw = "duplicate" /\ Done(i) /\ TargetReserved(i)

\* C8: a claim for a valid artist and location on a day without an
\* AvailabilityRecord is answered 404 (NotFound).
C8_NoRecordIsNotFound ==
    \A i \in DOMAIN reqs :
        reqs[i].slotState = "norecord" => reqs[i].res.status = 404

\* C9: a claim whose time the record does not list and a claim on a slot that
\* is already reserved get the same answer, and the step leaves every
\* AvailabilityRecord and the Booking collection as they were.
C9_MissingSameAsReserved ==
    [][\A i \in DOMAIN reqs :
          (/\ reqs[i].pc = "claim"
           /\ reqs'[i].slotState # "none"
           /\ SlotStateOf(reqs[i].body.artistId.chars, reqs[i].body.locationId.chars,
                          reqs[i].body.date.chars, reqs[i].body.time.chars)
                  \in {"missing", "reserved"})
          => /\ reqs'[i].res = NoAvailabilityRes
             /\ reqs'[i].pc = "done"
             /\ availabilityDocs' = availabilityDocs
             /\ bookingDocs' = bookingDocs]_vars

C9_Witness ==
    \E i \in DOMAIN reqs :
        /\ reqs[i].slotState = "missing"
        /\ reqs[i].res = NoAvailabilityRes
        /\ ~reqs[i].claimed

\* C10: an authenticated request with a malformed locationId, artistId, date
\* or time is answered 400 without having issued any database call.
C10_MalformedRejectedBeforeDb ==
    \A i \in DOMAIN reqs :
        (requireAuth(reqs[i].token) = NoRes /\ reqs[i].body \in BadBodies)
            => /\ Done(i)
               /\ reqs[i].res.status = 400
               /\ reqs[i].dbOps = 0
               /\ ~reqs[i].claimed
               /\ reqs[i].booking = 0

C10_Witness ==
    \E i \in DOMAIN reqs :
        /\ reqs[i].body = [BaseBody EXCEPT !.time = Str(<<"1", "0", "0", "0">>)]
        /\ reqs[i].res = Res(400, "bad_time")
        /\ availabilityDocs = seedAvailability
        /\ bookingDocs = <<>>

\* C16: a request that claimed its slot and created its Booking is answered
\* 201, and every answer is one of 201, 409, 404, 400, 401 (auth) and 500
\* (service fault).
C16_SuccessIs201 ==
    \A i \in DOMAIN reqs :
        Done(i) =>
            /\ (reqs[i].booking # 0 /\ reqs[i].threw = "none") => reqs[i].res.status = 201
            /\ reqs[i].res.status \in {201, 409, 404, 400, 401, 500}

\* C17: a request cut short by an unreachable datastore gets an answer that is
\* neither NotFound (404), nor the conflict answer (409), nor the generic
\* failure answer of the catch block.
C17_FaultIsServiceUnavailable ==
    \A i \in DOMAIN reqs :
        reqs[i].threw = "fault"
            => /\ reqs[i].res.status \notin {404, 409}
               /\ reqs[i].res # CatchRes

\* request i leaves its claim step having reserved the slot at `time` of record d
ClaimsSlotNow(i, d, time) ==
    /\ reqs[i].pc = "claim"
    /\ reqs'[i].claimed
    /\ reqs[i].body.artistId.chars = d.artist
    /\ reqs[i].body.locationId.chars = d.location
    /\ reqs[i].body.date.chars = d.date
    /\ reqs[i].body.time.chars = time

\* C18: a step changes the reserved state of a slot only if it is the claim
\* of a request that names exactly this slot; every other slot of the same
\* record and of every other record keeps its state, and no record appears,
\* disappears or changes its slot list.
C18_ClaimTouchesOnlyItsSlot ==
    [][\A d \in availabilityDocs :
          LET after == {e \in availabilityDocs' :
                           e.artist = d.artist /\ e.location = d.location /\ e.date = d.date}
          IN /\ Cardinality(after) = 1
             /\ Cardinality(availabilityDocs') = Cardinality(availabilityDocs)
             /\ \A e \in after :
                 /\ DOMAIN e.slots = DOMAIN d.slots
                 /\ \A k \in DOMAIN d.slots :
                     /\ e.slots[k].time = d.slots[k].time
                     /\ e.slots[k].isBooked # d.slots[k].isBooked
                            => \E i \in DOMAIN reqs : ClaimsSlotNow(i, d, d.slots[k].time)]_vars

\* the scenario: 10:00 of a record was booked by one request and refused to
\* another, and 11:30 of the same record is still free
C18_Witness ==
    \E d \in availabilityDocs :
        /\ d.slots[1].isBooked
        /\ ~d.slots[2].isBooked
        /\ \E i, j \in DOMAIN reqs :
            /\ reqs[i].booking # 0 /\ reqs[i].res = SuccessRes
            /\ reqs[j].res = NoAvailabilityRes
            /\ reqs[i].body = reqs[j].body
            /\ reqs[i].body.locationId.chars = d.location
            /\ reqs[i].body.artistId.chars = d.artist
            /\ reqs[i].body.time.chars = d.slots[1].time

\* C19: every Booking was created by a request whose own claim had found the
\* slot free and reserved it, and carries that request's artist, location,
\* date and time.
C19_BookingOnlyAfterClaim ==
    \A n \in DOMAIN bookingDocs :
        \E i \in DOMAIN reqs :
            /\ reqs[i].booking = n
            /\ reqs[i].claimed
            /\ reqs[i].slotState = "free"
            /\ TargetReserved(i)
            /\ bookingDocs[n].artist = reqs[i].body.artistId.chars
            /\ bookingDocs[n].location = reqs[i].body.locationId.chars
            /\ bookingDocs[n].date = reqs[i].body.date.chars
            /\ bookingDocs[n].time = reqs[i].body.time.chars

\* a Booking exists while another request for the same slot was refused
C19_Witness ==
    /\ Len(bookingDocs) = 1
    /\ \E i, j \in DOMAIN reqs :
        /\ reqs[i].booking = 1
        /\ reqs[j].slotState = "reserved"
        /\ reqs[j].booking = 0

\* --------------------------------------------- PUT /artists/:artistId (admin.js)
\* ObjectIds that name no document
noLocation == Rep("a", 23) \o <<"9">>
noArtist == Rep("b", 23) \o <<"9">>

\* bodies of booking requests whose artist or location may not be available
LookupBodies ==
    { BaseBody,
      [BaseBody EXCEPT !.locationId = Str(noLocation)],
      [BaseBody EXCEPT !.artistId = Str(noArtist)],
      [BaseBody EXCEPT !.artistId = Str(naraa), !.locationId = Str(riverside)] }

LookupInputs == { [token |-> UserToken(userA), body |-> b] : b \in LookupBodies }

\* request bodies of the admin: the active flag and the location list, each
\* either left out (Undefined) or given
PutArtistInputs ==
    { [artistId |-> Str(temuujin), active |-> a, locationIds |-> l] :
        a \in {"undefined", "true", "false"},
        l \in {"undefined", "central", "central,riverside"} }
    \ { [artistId |-> Str(temuujin), active |-> "undefined", locationIds |-> "undefined"] }

\* validLocationIds: the ids of the body that are valid ObjectIds
validLocationIds(in) ==
    IF in.locationIds = "central" THEN {central} ELSE {central, riverside}

\* Artist.findByIdAndUpdate(artistId, { ...updates, locations }), fields that
\* are undefined left as they are
PutArtist(in) ==
    /\ isValidObjectId(in.artistId)
    /\ \E a \in artistDocs :
        /\ a._id = in.artistId.chars
        /\ artistDocs' = (artistDocs \ {a}) \cup
               { [a EXCEPT
                    !.active = IF in.active = "undefined" THEN @ ELSE in.active = "true",
                    !.locations = IF in.locationIds = "undefined" THEN @
                                  ELSE validLocationIds(in)] }
        /\ artistDocs' # artistDocs
    /\ UNCHANGED <<locationDocs, availabilityDocs, bookingDocs, reqs, faults, now>>
    /\ UNCHANGED notPost

NextAdmin ==
    \/ \E in \in LookupInputs : Receive(in)
    \/ \E i \in DOMAIN reqs : Lookup(i)
    \/ \E i \in DOMAIN reqs : Claim(i)
    \/ \E i \in DOMAIN reqs : Create(i)
    \/ \E i \in DOMAIN reqs : Populate(i)
    \/ \E i \in DOMAIN reqs : Fault(i)
    \/ \E in \in PutArtistInputs : PutArtist(in)

\* booking requests next to an admin who edits an artist
SpecAdmin == Init /\ [][NextAdmin]_vars

\* the location named by the body does not exist, or the artist does not
\* exist, is inactive or does not serve the location
NotAvailable(b) ==
    \/ b.locationId.chars \notin locationDocs
    \/ \A a \in artistDocs : a._id # b.artistId.chars
    \/ \E a \in artistDocs :
        /\ a._id = b.artistId.chars
        /\ (~a.active \/ b.locationId.chars \notin a.locations)

\* C11: when the lookup of a request finds its location missing, or its artist
\* missing, inactive or not serving the location, the request ends there with
\* 404, having claimed nothing, and the step changes no AvailabilityRecord and
\* no Booking.
C11_UnavailableIsNotFound ==
    [][\A i \in DOMAIN reqs :
          (/\ reqs[i].pc = "lookup"
           /\ reqs'[i].pc # "lookup"
           /\ reqs'[i].threw = "none"
           /\ NotAvailable(reqs[i].body))
          => /\ reqs'[i].pc = "done"
             /\ reqs'[i].res.status = 404
             /\ ~reqs'[i].claimed
             /\ reqs'[i].booking = 0
             /\ availabilityDocs' = availabilityDocs
             /\ bookingDocs' = bookingDocs]_vars

\* a request for a free slot of an artist the admin has deactivated was
\* answered 404 and the slot is still free
C11_Witness ==
    \E i \in DOMAIN reqs :
        /\ reqs[i].res = Res(404, "artist_not_found")
        /\ \E a \in artistDocs :
            /\ a._id = reqs[i].body.artistId.chars
            /\ ~a.active
            /\ reqs[i].body.locationId.chars \in a.locations
        /\ SlotStateOf(reqs[i].body.artistId.chars, reqs[i].body.locationId.chars,
                       reqs[i].body.date.chars, reqs[i].body.time.chars) = "free"

\* ------------------------------------------------- GET /availability (booking.js)
MaxGets == 2      \* availability requests in one run

TimeZones == {-1, 0, 1}

DigitChar(d) == <<"0", "1", "2", "3", "4", "5", "6", "7", "8", "9">>[d + 1]
DigitVal(c) == CHOOSE d \in 0..9 : DigitChar(d) = c
TwoDigits(k) == <<DigitChar(k \div 10), DigitChar(k % 10)>>

\* Calendar days are counted from 2024-06-01 (day 0), from 2024-05-01 to
\* 2024-07-31.  YYYY-MM-DD of a day:
dayString(n) ==
    IF n < 0 THEN <<"2", "0", "2", "4", "-", "0", "5", "-">> \o TwoDigits(n + 32)
    ELSE IF n < 30 THEN <<"2", "0", "2", "4", "-", "0", "6", "-">> \o TwoDigits(n + 1)
    ELSE <<"2", "0", "2", "4", "-", "0", "7", "-">> \o TwoDigits(n - 29)

DayRange == (-31)..60

\* new Date(`${s}T00:00:00`): a date-time without offset is local time, so
\* this is local midnight of the day the string names
localMidnight(s) == CHOOSE n \in DayRange : dayString(n) = s

\* date.toISOString().slice(0, 10) of local midnight of local day n: the UTC
\* calendar day of that instant, which east of UTC is the day before
toISODay(n) == IF tz > 0 THEN n - 1 ELSE n

\* new Date() with setHours(0, 0, 0, 0): the local day of the run, the day on
\* which the seeding wrote isoDate(0)
today == IF tz > 0 THEN 1 ELSE 0

NaN == [nan |-> TRUE, n |-> 0]
Num(n) == [nan |-> FALSE, n |-> n]

RECURSIVE digitsValue(_)
digitsValue(s) ==
    IF s = <<>> THEN 0
    ELSE 10 * digitsValue(SubSeq(s, 1, Len(s) - 1)) + DigitVal(s[Len(s)])

\* the longest prefix of s made of digits
digitPrefix(s) ==
    LET n == CHOOSE k \in 0..Len(s) :
                 /\ \A j \in 1..k : s[j] \in Digits
                 /\ (k < Len(s) => s[k + 1] \notin Digits)
    IN SubSeq(s, 1, n)

\* parseInt(v, 10): an optional sign and the leading digits, NaN without digits
parseInt(v) ==
    IF v.type # "string" \/ v.chars = <<>> THEN NaN
    ELSE LET neg == v.chars[1] = "-"
             body == IF v.chars[1] \in {"-", "+"} THEN Tail(v.chars) ELSE v.chars
             ds == digitPrefix(body)
         IN IF ds = <<>> THEN NaN
            ELSE Num(IF neg THEN 0 - digitsValue(ds) ELSE digitsValue(ds))

\* parseInt(req.query.days, 10) || 7
daysParam(v) ==
    LET p == parseInt(v)
    IN IF p.nan \/ p.n = 0 THEN 7 ELSE p.n

Min(a, b) == IF a < b THEN a ELSE b
Max(a, b) == IF a > b THEN a ELSE b

\* Math.min(Math.max(daysParam, 1), 30)
clampDays(n) == Min(Max(n, 1), 30)

\* the local day startDate stands for
startDay(fromDate) ==
    IF fromDate.type = "string" /\ fromDate.chars # <<>> /\ DateRegex(fromDate.chars)
        THEN localMidnight(fromDate.chars)
    ELSE today

\* available: doc has no Booking (the Booking collection asked, not the slot)
toAvailabilityDtoFromBookings(doc) ==
    [date |-> doc.date,
     slots |-> [k \in DOMAIN doc.slots |->
                  [time |-> doc.slots[k].time,
                   available |-> ~\E n \in DOMAIN bookingDocs :
                                     /\ bookingDocs[n].artist = doc.artist
                                     /\ bookingDocs[n].date = doc.date
                                     /\ bookingDocs[n].time = doc.slots[k].time]]]

toAvailabilityDto(doc) ==
    [date |-> doc.date,
     slots |-> [k \in DOMAIN doc.slots |->
                  [time |-> doc.slots[k].time,
                   available |-> doc.slots[k].isBooked # TRUE]]]

\* targetDates of a request: `days` days from startDate on
targetDates(g) ==
    [index \in 1..g.days |-> dayString(toISODay(g.startDay + (index - 1)))]

\* ArtistAvailability.find({ artist, location, date: { $in: targetDates } }),
\* mapped by date, and one entry per target date
resultDays(g) ==
    LET dates == targetDates(g)
        docs == {d \in availabilityDocs :
                    /\ d.artist = g.query.artistId.chars
                    /\ d.location = g.query.locationId.chars
                    /\ \E k \in DOMAIN dates : dates[k] = d.date}
    IN [k \in DOMAIN dates |->
          IF \E d \in docs : d.date = dates[k]
              THEN [date |-> dates[k],
                    slots |-> toAvailabilityDto(CHOOSE d \in docs : d.date = dates[k]).slots]
          ELSE [date |-> dates[k], slots |-> <<>>]]

NewGet(q) ==
    [query |-> q, pc |-> "lookup", res |-> NoRes,
     days |-> clampDays(daysParam(q.days)),
     startDay |-> startDay(q.fromDate),
     result |-> <<>>,         \* `days` of the response
     claimsSeen |-> 0]        \* reserved slots in the database when it was read

\* the two input checks of the handler
ValidateQuery(q) ==
    IF Falsy(q.locationId) \/ ~isValidObjectId(q.locationId)
        THEN Res(400, "bad_location")
    ELSE IF Falsy(q.artistId) \/ ~isValidObjectId(q.artistId)
        THEN Res(400, "bad_artist")
    ELSE NoRes

AvReceive(q) ==
    /\ Len(gets) < MaxGets
    /\ LET g == NewGet(q)
           v == ValidateQuery(q)
       IN gets' = Append(gets, IF v # NoRes THEN Finish(g, v) ELSE g)
    /\ UNCHANGED <<locationDocs, artistDocs, availabilityDocs, bookingDocs, reqs, faults,
                   hists, seeding, tz, now, inflight, awaiting, adminState, dels>>

AvLookup(i) ==
    /\ gets[i].pc = "lookup"
    /\ LET q == gets[i].query
       IN gets' = [gets EXCEPT ![i] =
              IF ~FindLocation(q.locationId.chars)
                  THEN Finish(@, Res(404, "location_not_found"))
              ELSE IF ~FindArtist(q.artistId.chars, q.locationId.chars)
                  THEN Finish(@, Res(404, "artist_not_found"))
              ELSE [@ EXCEPT !.pc = "find"]]
    /\ UNCHANGED <<locationDocs, artistDocs, availabilityDocs, bookingDocs, reqs, faults,
                   hists, seeding, tz, now, inflight, awaiting, adminState, dels>>

AvFind(i) ==
    /\ gets[i].pc = "find"
    /\ gets' = [gets EXCEPT ![i] =
           Finish([@ EXCEPT !.result = resultDays(gets[i]),
                            !.claimsSeen = Cardinality(
                                {p \in UNION {{<<d, k>> : k \in DOMAIN d.slots} :
                                                 d \in availabilityDocs} :
                                    p[1].slots[p[2]].isBooked})],
                  SuccessRes)]
    /\ UNCHANGED <<locationDocs, artistDocs, availabilityDocs, bookingDocs, reqs, faults,
                   hists, seeding, tz, now, inflight, awaiting, adminState, dels>>

\* answer of the catch block of GET /availability
AvCatchRes == Res(500, "availability_failed")

AvFault(i) ==
    /\ gets[i].pc \in {"lookup", "find"}
    /\ faults < MaxFaults
    /\ faults' = faults + 1
    /\ gets' = [gets EXCEPT ![i] = Finish(@, AvCatchRes)]
    /\ UNCHANGED <<locationDocs, artistDocs, availabilityDocs, bookingDocs, reqs,
                   hists, seeding, tz, now, inflight, awaiting, adminState, dels>>

\* ---------------------------------------------------- the `days` parameter alone
BaseQuery ==
    [locationId |-> Str(central), artistId |-> Str(temuujin),
     days |-> Undefined, fromDate |-> Str(isoDate(0))]

DaysValues ==
    { Undefined, Str(<<"0">>), Str(<<"1">>), Str(<<"2">>), Str(<<"5", "0", "0">>),
      Str(<<"-", "3">>), Str(<<"a", "b", "c">>), Str(<<"3", "x">>) }

DaysQueries ==
    { [BaseQuery EXCEPT !.days = d] : d \in DaysValues }
    \cup { [BaseQuery EXCEPT !.locationId = Str(<<"x">>)],
           [BaseQuery EXCEPT !.artistId = Undefined],
           [BaseQuery EXCEPT !.artistId = Str(noArtist)],
           [BaseQuery EXCEPT !.locationId = Str(noLocation)] }

NextDays ==
    \/ \E q \in DaysQueries : AvReceive(q)
    \/ \E i \in DOMAIN gets : AvLookup(i)
    \/ \E i \in DOMAIN gets : AvFind(i)
    \/ \E i \in DOMAIN gets : AvFault(i)

SpecDays == Init /\ [][NextDays]_vars

\* ------------------------------------------- reads beside bookings, any time zone
ReadQueries ==
    { [BaseQuery EXCEPT !.days = Str(<<"2">>)],
      [BaseQuery EXCEPT !.days = Str(<<"1">>), !.fromDate = Undefined] }

MaxReadCalls == 3 \* booking and availability requests in one run beside each other

ReadCalls == Len(reqs) + Len(gets)

ReadBookInputs == { [token |-> UserToken(userA), body |-> BaseBody] }

\* the server may run in any time zone
InitRead ==
    /\ locationDocs = seedLocations
    /\ artistDocs = seedArtists
    /\ availabilityDocs = seedAvailability
    /\ bookingDocs = <<>>
    /\ reqs = <<>>
    /\ faults = 0
    /\ gets = <<>>
    /\ hists = <<>>
    /\ seeding = NotSeeding
    /\ AfterStartup
    /\ tz \in TimeZones
    /\ now = 0

NextRead ==
    \/ \E in \in ReadBookInputs : ReadCalls < MaxReadCalls /\ Receive(in)
    \/ \E i \in DOMAIN reqs : Lookup(i)
    \/ \E i \in DOMAIN reqs : Claim(i)
    \/ \E i \in DOMAIN reqs : Create(i)
    \/ \E i \in DOMAIN reqs : Populate(i)
    \/ \E i \in DOMAIN reqs : Fault(i)
    \/ \E q \in ReadQueries : ReadCalls < MaxReadCalls /\ AvReceive(q)
    \/ \E i \in DOMAIN gets : AvLookup(i)
    \/ \E i \in DOMAIN gets : AvFind(i)
    \/ \E i \in DOMAIN gets : AvFault(i)

SpecRead == InitRead /\ [][NextRead]_vars

\* C12: the number of days is clamped to [1, 30]: days=0 yields exactly one
\* entry, days=500 exactly thirty, and every answer has between 1 and 30.
C12_DaysClamped ==
    \A i \in DOMAIN gets :
        (gets[i].pc = "done" /\ gets[i].res.status = 200) =>
            /\ Len(gets[i].result) \in 1..30
            /\ gets[i].query.days = Str(<<"0">>) => Len(gets[i].result) = 1
            /\ gets[i].query.days = Str(<<"5", "0", "0">>) => Len(gets[i].result) = 30

\* the day a well-formed fromDate names, however the handler reads it
NamedDay(s) == CHOOSE n \in DayRange : dayString(n) = s

\* the requested number of days of a query whose `days` is a plain number
RequestedDays(q) == digitsValue(q.days.chars)

\* the slots the record of (artist, location, date) lists, with availability
SlotsOn(artist, location, date) ==
    IF \E d \in availabilityDocs :
           d.artist = artist /\ d.location = location /\ d.date = date
        THEN LET d == CHOOSE d \in availabilityDocs :
                          d.artist = artist /\ d.location = location /\ d.date = date
             IN [k \in DOMAIN d.slots |->
                    [time |-> d.slots[k].time, available |-> ~d.slots[k].isBooked]]
    ELSE <<>>

\* C13: an answered request with fromDate and days gets one entry for each of
\* the `days` consecutive calendar days starting at fromDate, each listing the
\* slots of that day's record with available = not reserved, and no slots for
\* a day without a record.
C13_EntryPerDayFromFromDate ==
    [][\A i \in DOMAIN gets :
          (/\ gets[i].pc = "find"
           /\ gets'[i].pc = "done"
           /\ gets'[i].res.status = 200
           /\ gets[i].query.fromDate # Undefined) =>
              LET q == gets[i].query
                  r == gets'[i].result
              IN /\ Len(r) = RequestedDays(q)
                 /\ \A k \in DOMAIN r :
                        /\ r[k].date = dayString(NamedDay(q.fromDate.chars) + (k - 1))
                        /\ r[k].slots = SlotsOn(q.artistId.chars, q.locationId.chars,
                                                r[k].date)]_vars

MaxHists == 2     \* history requests in one run
HistDays == 2     \* seeded days the stored bookings are spread over (7 in the source)

\* the (artist, location) pairs bookings are stored for: (artist, timeslot) is
\* unique, so each artist appears with one location
histPairs == << <<naraa, central>>, <<temuujin, central>>, <<khishgee, riverside>> >>

\* the k-th booking made, by its owner, at time createdAt
histBooking(k, owner, createdAt) ==
    LET pair == histPairs[((k - 1) % Len(histPairs)) + 1]
        time == slotTemplate[(((k - 1) \div Len(histPairs)) % Len(slotTemplate)) + 1]
        date == isoDate((k - 1) \div (Len(histPairs) * Len(slotTemplate)))
    IN [user |-> owner, location |-> pair[2], artist |-> pair[1],
        date |-> date, time |-> time,
        timeslot |-> date \o <<"T">> \o time,
        status |-> "confirmed", createdAt |-> createdAt]

\* how many bookings are stored: fewer than a page for userA, and more
HistSizes == {22, 26}

\* every seventh booking is userB's
histOwner(k) == IF k % 7 = 0 THEN userB ELSE userA

\* the availability records behind a sequence of bookings
histAvailability(bookings) ==
    { [location |-> t[2], artist |-> t[1]._id, date |-> isoDate(t[3]),
       slots |-> [k \in DOMAIN slotTemplate |->
                    [time |-> slotTemplate[k],
                     isBooked |-> \E n \in DOMAIN bookings :
                                      /\ bookings[n].artist = t[1]._id
                                      /\ bookings[n].location = t[2]
                                      /\ bookings[n].date = isoDate(t[3])
                                      /\ bookings[n].time = slotTemplate[k]]]]
        : t \in {u \in seedArtists \X seedLocations \X (0..(HistDays - 1)) :
                    u[2] \in u[1].locations} }

\* a database after some weeks of bookings; two bookings made in the same
\* millisecond share createdAt when `paired`
InitHistory ==
    /\ locationDocs = seedLocations
    /\ artistDocs = seedArtists
    /\ \E n \in HistSizes, paired \in BOOLEAN :
          bookingDocs = [k \in 1..n |->
              histBooking(k, histOwner(k), IF paired THEN (k + 1) \div 2 ELSE k)]
    /\ availabilityDocs = histAvailability(bookingDocs)
    /\ reqs = <<>>
    /\ faults = 0
    /\ gets = <<>>
    /\ hists = <<>>
    /\ seeding = NotSeeding
    /\ AfterStartup
    /\ tz = 0
    /\ now = Len(bookingDocs)

\* sort({ createdAt: 1 }): oldest first
BeforeOldestFirst(a, b, natural) ==
    \/ bookingDocs[a].createdAt < bookingDocs[b].createdAt
    \/ /\ bookingDocs[a].createdAt = bookingDocs[b].createdAt
       /\ IF natural THEN a < b ELSE a > b

\* sort({ createdAt: -1 }): a comes before b; documents with equal createdAt
\* come in the order the storage engine yields them
Before(a, b, natural) ==
    \/ bookingDocs[a].createdAt > bookingDocs[b].createdAt
    \/ /\ bookingDocs[a].createdAt = bookingDocs[b].createdAt
       /\ IF natural THEN a < b ELSE a > b

RECURSIVE sortBookings(_, _)
sortBookings(S, natural) ==
    IF S = {} THEN <<>>
    ELSE LET first == CHOOSE a \in S : \A b \in S \ {a} : Before(a, b, natural)
         IN <<first>> \o sortBookings(S \ {first}, natural)

\* .limit(n)
limit(s, n) == SubSeq(s, 1, Min(Len(s), n))

\* Booking.find({}).sort({ createdAt: -1 }).limit(20): the owner not asked for
findHistoryAll(userId, natural) ==
    limit(sortBookings(DOMAIN bookingDocs, natural), 20)

\* Booking.find({ user: userId }).sort({ createdAt: -1 }).limit(20), as
\* positions in the collection
findHistory(userId, natural) ==
    limit(sortBookings({k \in DOMAIN bookingDocs : bookingDocs[k].user = userId}, natural),
          20)

HistTokens == {NoToken, BadToken, AdminToken, UserToken(userA), UserToken(userB)}

NewHist(token) == [token |-> token, pc |-> "find", res |-> NoRes, result |-> <<>>]

\* requireAuth, then the handler's own check of userId
HistReceive(token) ==
    /\ Len(hists) < MaxHists
    /\ LET h == NewHist(token)
           a == requireAuth(token)
       IN hists' = Append(hists,
              IF a # NoRes THEN Finish(h, a)
              ELSE IF Falsy(token.userId) \/ ~isValidObjectId(token.userId)
                  THEN Finish(h, Res(401, "login_required"))
              ELSE h)
    /\ UNCHANGED <<locationDocs, artistDocs, availabilityDocs, bookingDocs, reqs, faults,
                   gets, seeding, tz, now, inflight, awaiting, adminState, dels>>

HistFind(i) ==
    /\ hists[i].pc = "find"
    /\ \E natural \in BOOLEAN :
          hists' = [hists EXCEPT ![i] =
              Finish([@ EXCEPT !.result = findHistory(hists[i].token.userId.chars, natural)],
                     SuccessRes)]
    /\ UNCHANGED <<locationDocs, artistDocs, availabilityDocs, bookingDocs, reqs, faults,
                   gets, seeding, tz, now, inflight, awaiting, adminState, dels>>

\* answer of the catch block of GET /history
HistCatchRes == Res(500, "history_failed")

HistFault(i) ==
    /\ hists[i].pc = "find"
    /\ faults < MaxFaults
    /\ faults' = faults + 1
    /\ hists' = [hists EXCEPT ![i] = Finish(@, HistCatchRes)]
    /\ UNCHANGED <<locationDocs, artistDocs, availabilityDocs, bookingDocs, reqs,
                   gets, seeding, tz, now, inflight, awaiting, adminState, dels>>

NextHistory ==
    \/ \E t \in HistTokens : HistReceive(t)
    \/ \E i \in DOMAIN hists : HistFind(i)
    \/ \E i \in DOMAIN hists : HistFault(i)

SpecHistory == InitHistory /\ [][NextHistory]_vars

\* the stored bookings of an owner
OwnedBy(u) == {k \in DOMAIN bookingDocs : bookingDocs[k].user = u}

\* C15: an answered history request lists only the caller's bookings, each
\* once, newest first, at most 20 of them: all of them when the caller has 20
\* or fewer, and otherwise 20 none of which is older than a booking left out.
C15_HistoryNewestTwenty ==
    \A i \in DOMAIN hists :
        (hists[i].pc = "done" /\ hists[i].res.status = 200) =>
            LET r == hists[i].result
                u == hists[i].token.userId.chars
                shown == {r[k] : k \in DOMAIN r}
            IN /\ shown \subseteq OwnedBy(u)
               /\ Cardinality(shown) = Len(r)
               /\ Len(r) <= 20
               /\ Len(r) = Min(Cardinality(OwnedBy(u)), 20)
               /\ \A k, l \in DOMAIN r :
                      k < l => bookingDocs[r[k]].createdAt >= bookingDocs[r[l]].createdAt
               /\ \A a \in shown, b \in OwnedBy(u) \ shown :
                      bookingDocs[a].createdAt >= bookingDocs[b].createdAt

\* the caller has more than 20 bookings, beside another owner's, and got a
\* page of 20 whose oldest entry was made in the same millisecond as a
\* booking left out
C15_Witness ==
    \E i \in DOMAIN hists :
        /\ hists[i].pc = "done" /\ hists[i].res.status = 200
        /\ Len(hists[i].result) = 20
        /\ Cardinality(OwnedBy(hists[i].token.userId.chars)) > 20
        /\ \E k \in DOMAIN bookingDocs : bookingDocs[k].user # hists[i].token.userId.chars
        /\ \E b \in OwnedBy(hists[i].token.userId.chars) :
               /\ \A k \in DOMAIN hists[i].result : hists[i].result[k] # b
               /\ bookingDocs[b].createdAt = bookingDocs[hists[i].result[20]].createdAt

\* ------------------------------------------------- ensureDemoData (booking.js)
MaxCalls == 2     \* requests of all kinds in one run of the whole router

\* the (artist, location) pairs in the order the two forEach loops visit them
seedPairs ==
    << <<naraa, central>>, <<temuujin, central>>,
       <<temuujin, riverside>>, <<khishgee, riverside>> >>

\* the array handed to insertMany, in the order it was pushed
seedArray ==
    [n \in 1..(Len(seedPairs) * SeedDays) |->
        LET pair == seedPairs[((n - 1) \div SeedDays) + 1]
        IN [location |-> pair[2], artist |-> pair[1],
            date |-> isoDate((n - 1) % SeedDays),
            slots |-> [k \in DOMAIN slotTemplate |->
                         [time |-> slotTemplate[k], isBooked |-> FALSE]]]]

\* unique index { artist: 1, location: 1, date: 1 } of ArtistAvailability
DuplicateRecord(doc, docs) ==
    \E d \in docs :
        d.artist = doc.artist /\ d.location = doc.location /\ d.date = doc.date

\* insertMany(docs, { ordered: false }) that got as far as the first m
\* documents: each is inserted unless the unique index rejects it, and a
\* rejected one does not stop the rest
insertMany(m) ==
    availabilityDocs \cup
        {seedArray[n] : n \in {j \in 1..m : ~DuplicateRecord(seedArray[j], availabilityDocs)}}

\* the database before anything was seeded
InitAll ==
    /\ locationDocs = {}
    /\ artistDocs = {}
    /\ availabilityDocs = {}
    /\ bookingDocs = <<>>
    /\ reqs = <<>>
    /\ faults = 0
    /\ gets = <<>>
    /\ hists = <<>>
    /\ seeding = NotSeeding
    /\ AfterStartup
    /\ tz = 0
    /\ now = 0

SeedUnchanged == <<bookingDocs, reqs, faults, gets, hists, tz, now, adminState, dels>>

MaxAwaiting == 1   \* callers handed the promise of one run in flight

\* a run of initializer n starts
Starts(n) ==
    /\ inflight' = [inflight EXCEPT ![n] = @ + 1]
    /\ UNCHANGED awaiting

\* the run of initializer n settles and its promise resolves for every caller
Settles(n) ==
    /\ inflight' = [inflight EXCEPT ![n] = @ - 1]
    /\ awaiting' = [awaiting EXCEPT ![n] = 0]

\* a call of ensureDemoData (GET /locations) while no run is in flight starts
\* one; a call during a run is awaitDemoData
ensureDemoData ==
    /\ ~seeding.promise
    /\ seeding' = [promise |-> TRUE, pc |-> "count"]
    /\ Starts("demo")
    /\ UNCHANGED <<locationDocs, artistDocs, availabilityDocs>>
    /\ UNCHANGED SeedUnchanged

\* if (seedingPromise) return seedingPromise: a call during a run is handed
\* the promise of that run
awaitDemoData ==
    /\ seeding.promise
    /\ awaiting["demo"] < MaxAwaiting
    /\ awaiting' = [awaiting EXCEPT !["demo"] = @ + 1]
    /\ UNCHANGED <<locationDocs, artistDocs, availabilityDocs, seeding, inflight>>
    /\ UNCHANGED SeedUnchanged

\* finally keeps seedingPromise: the promise of the settled run stays memoized
SeedSettledKeepsPromise == [promise |-> TRUE, pc |-> "idle"]

\* the promise settled: finally clears seedingPromise
SeedSettled == NotSeeding

\* await Location.countDocuments(); existing > 0 returns
SeedCount ==
    /\ seeding.pc = "count"
    /\ IF Cardinality(locationDocs) > 0
           THEN seeding' = SeedSettled /\ Settles("demo")
       ELSE seeding' = [seeding EXCEPT !.pc = "locations"] /\ UNCHANGED <<inflight, awaiting>>
    /\ UNCHANGED <<locationDocs, artistDocs, availabilityDocs>>
    /\ UNCHANGED SeedUnchanged

\* await Location.create([...])
SeedLocations ==
    /\ seeding.pc = "locations"
    /\ locationDocs' = locationDocs \cup seedLocations
    /\ seeding' = [seeding EXCEPT !.pc = "artists"]
    /\ UNCHANGED <<inflight, awaiting>>
    /\ UNCHANGED <<artistDocs, availabilityDocs>>
    /\ UNCHANGED SeedUnchanged

\* await Artist.create([...]), then the array of availability documents is built
SeedArtists ==
    /\ seeding.pc = "artists"
    /\ artistDocs' = artistDocs \cup seedArtists
    /\ seeding' = [seeding EXCEPT !.pc = "availability"]
    /\ UNCHANGED <<inflight, awaiting>>
    /\ UNCHANGED <<locationDocs, availabilityDocs>>
    /\ UNCHANGED SeedUnchanged

\* await ArtistAvailability.insertMany(...).catch(() => undefined)
SeedInsert ==
    /\ seeding.pc = "availability"
    /\ availabilityDocs' = insertMany(Len(seedArray))
    /\ seeding' = SeedSettled
    /\ Settles("demo")
    /\ UNCHANGED <<locationDocs, artistDocs>>
    /\ UNCHANGED SeedUnchanged

\* an awaited call of the run rejects after a part of its documents was
\* written; the rejection is logged and the promise settles
SeedFault ==
    /\ seeding.promise
    /\ faults < MaxFaults
    /\ faults' = faults + 1
    /\ seeding' = SeedSettled
    /\ Settles("demo")
    /\ IF seeding.pc = "locations"
           THEN /\ \E part \in SUBSET seedLocations :
                      part # seedLocations /\ locationDocs' = locationDocs \cup part
                /\ UNCHANGED <<artistDocs, availabilityDocs>>
       ELSE IF seeding.pc = "artists"
           THEN /\ \E part \in SUBSET seedArtists :
                      part # seedArtists /\ artistDocs' = artistDocs \cup part
                /\ UNCHANGED <<locationDocs, availabilityDocs>>
       ELSE IF seeding.pc = "availability"
           THEN /\ \E m \in 0..(Len(seedArray) - 1) : availabilityDocs' = insertMany(m)
                /\ UNCHANGED <<locationDocs, artistDocs>>
       ELSE UNCHANGED <<locationDocs, artistDocs, availabilityDocs>>
    /\ UNCHANGED <<bookingDocs, reqs, gets, hists, tz, now, adminState, dels>>

\* ----------------------------------------------------------- the whole router
Calls == Len(reqs) + Len(gets) + Len(hists)

AllBookInputs ==
    { [token |-> UserToken(userA), body |-> BaseBody],
      [token |-> UserToken(userA), body |-> [BaseBody EXCEPT !.time = Str(slotTemplate[2])]] }

AllQueries == { [BaseQuery EXCEPT !.days = Str(<<"1">>)] }

AllTokens == { UserToken(userA) }

NextAll ==
    \/ ensureDemoData
    \/ SeedCount
    \/ SeedLocations
    \/ SeedArtists
    \/ SeedInsert
    \/ SeedFault
    \/ \E in \in AllBookInputs : Calls < MaxCalls /\ Receive(in)
    \/ \E i \in DOMAIN reqs : Lookup(i)
    \/ \E i \in DOMAIN reqs : Claim(i)
    \/ \E i \in DOMAIN reqs : Create(i)
    \/ \E i \in DOMAIN reqs : Populate(i)
    \/ \E i \in DOMAIN reqs : Fault(i)
    \/ \E q \in AllQueries : Calls < MaxCalls /\ AvReceive(q)
    \/ \E i \in DOMAIN gets : AvLookup(i)
    \/ \E i \in DOMAIN gets : AvFind(i)
    \/ \E i \in DOMAIN gets : AvFault(i)
    \/ \E t \in AllTokens : Calls < MaxCalls /\ HistReceive(t)
    \/ \E i \in DOMAIN hists : HistFind(i)
    \/ \E i \in DOMAIN hists : HistFault(i)

SpecAll == InitAll /\ [][NextAll]_vars

\* C20: a reserved slot stays reserved: no step of a booking request, an
\* availability read, a history read or the demo seeding takes a reserved slot
\* away or marks it free again.
C20_ReservedStaysReserved ==
    [][\A d \in availabilityDocs :
          \A k \in DOMAIN d.slots :
              d.slots[k].isBooked =>
                  \E e \in availabilityDocs' :
                      /\ e.artist = d.artist /\ e.location = d.location /\ e.date = d.date
                      /\ \E j \in DOMAIN e.slots :
                             e.slots[j].time = d.slots[k].time /\ e.slots[j].isBooked]_vars

\* a slot reserved after the seeding, seen reserved by a read, and a later
\* seeding run in flight
C20_Witness ==
    /\ ReservedSlots # {}
    /\ seeding.promise
    /\ \E i \in DOMAIN gets : gets[i].res.status = 200 /\ gets[i].claimsSeen > 0

\* C21: the ArtistAvailability collection never holds two records of the same
\* (artist, location, date), whatever seeding runs and booking requests did.
C21_OneRecordPerTriple ==
    \A d, e \in availabilityDocs :
        (d.artist = e.artist /\ d.location = e.location /\ d.date = e.date) => d = e

\* a record was rewritten by a claim and a further seeding run is in flight
C21_Witness ==
    /\ seeding.pc = "count"
    /\ availabilityDocs # {}
    /\ \E i \in DOMAIN reqs : reqs[i].claimed

\* C22: every Booking has timeslot = date, "T", time, and the Booking of a
\* request answered with success has the date and time the request named,
\* that timeslot, and status confirmed.
C22_TimeslotIsDateTTime ==
    /\ \A k \in DOMAIN bookingDocs :
           bookingDocs[k].timeslot = bookingDocs[k].date \o <<"T">> \o bookingDocs[k].time
    /\ \A i \in DOMAIN reqs :
           (reqs[i].pc = "done" /\ reqs[i].res.status = 200) =>
               /\ reqs[i].booking \in DOMAIN bookingDocs
               /\ bookingDocs[reqs[i].booking].date = reqs[i].body.date.chars
               /\ bookingDocs[reqs[i].booking].time = reqs[i].body.time.chars
               /\ bookingDocs[reqs[i].booking].timeslot =
                      reqs[i].body.date.chars \o <<"T">> \o reqs[i].body.time.chars
               /\ bookingDocs[reqs[i].booking].status = "confirmed"

\* two requests for two times of one day were both answered with success
C22_Witness ==
    \E i, j \in DOMAIN reqs :
        /\ reqs[i].res.status = 200 /\ reqs[j].res.status = 200
        /\ reqs[i].body.date = reqs[j].body.date
        /\ reqs[i].body.time # reqs[j].body.time
        /\ bookingDocs[reqs[i].booking].timeslot # bookingDocs[reqs[j].booking].timeslot

\* C23: a step of the booking core never changes or removes a Booking that
\* exists, and every Booking has status confirmed, never cancelled.
C23_BookingsAppendOnly ==
    /\ [][\A k \in DOMAIN bookingDocs :
             k \in DOMAIN bookingDocs' /\ bookingDocs'[k] = bookingDocs[k]]_vars
    /\ [](\A k \in DOMAIN bookingDocs : bookingDocs[k].status = "confirmed")

\* a request that had created its Booking failed afterwards, and the Booking
\* is still there
C23_Witness ==
    \E i \in DOMAIN reqs :
        /\ reqs[i].threw = "fault"
        /\ reqs[i].threwAt = "populate"
        /\ reqs[i].booking \in DOMAIN bookingDocs
        /\ seeding = NotSeeding

\* C25: a booking request answered 401 (no token, a token that does not
\* verify, or a verified token without a valid userId) has reserved no slot.
C25_UnauthenticatedReservesNothing ==
    \A i \in DOMAIN reqs :
        (reqs[i].pc = "done" /\ reqs[i].res.status = 401) => ~reqs[i].claimed

\* the request passed every check before the claim, with a caller a Booking
\* can be created for, for a slot the seeding listed with an artist who
\* serves the location
Claimant(i) ==
    /\ PassedValidation(i)
    /\ ~Falsy(reqs[i].token.userId) /\ isValidObjectId(reqs[i].token.userId)
    /\ TargetsSeededSlot(i)
    /\ FindLocation(reqs[i].body.locationId.chars)
    /\ FindArtist(reqs[i].body.artistId.chars, reqs[i].body.locationId.chars)

\* C26: when the requests of a run name pairwise distinct (artist, location,
\* date, time) slots, each free and each with a valid artist, and none meets a
\* datastore fault, every one of them is answered with success and has a
\* Booking, two requests for one artist and instant at two locations included.
C26_DistinctSlotsAllSucceed ==
    (/\ \A i \in DOMAIN reqs :
            Claimant(i) /\ reqs[i].pc = "done" /\ reqs[i].threw # "fault"
     /\ \A i, j \in DOMAIN reqs : i # j => reqs[i].body # reqs[j].body)
    => \A i \in DOMAIN reqs :
           reqs[i].res.status = 200 /\ reqs[i].booking \in DOMAIN bookingDocs

\* ------------------------------------------ two users booking and reading history
MaxOwnerCalls == 3    \* booking and history requests in one run beside each other

OwnerCalls == Len(reqs) + Len(hists)

\* both users ask for the same slot, and userB for another one as well
OwnerBookInputs ==
    { [token |-> UserToken(userA), body |-> BaseBody],
      [token |-> UserToken(userB), body |-> BaseBody],
      [token |-> UserToken(userB), body |-> [BaseBody EXCEPT !.time = Str(slotTemplate[2])]] }

OwnerTokens == { UserToken(userA), UserToken(userB) }

NextOwner ==
    \/ \E in \in OwnerBookInputs : OwnerCalls < MaxOwnerCalls /\ Receive(in)
    \/ \E i \in DOMAIN reqs : Lookup(i)
    \/ \E i \in DOMAIN reqs : Claim(i)
    \/ \E i \in DOMAIN reqs : Create(i)
    \/ \E i \in DOMAIN reqs : Populate(i)
    \/ \E i \in DOMAIN reqs : Fault(i)
    \/ \E t \in OwnerTokens : OwnerCalls < MaxOwnerCalls /\ HistReceive(t)
    \/ \E i \in DOMAIN hists : HistFind(i)
    \/ \E i \in DOMAIN hists : HistFault(i)

SpecOwner == Init /\ [][NextOwner]_vars

\* the Bookings created by requests of the caller with this userId
CreatedBy(u) ==
    {k \in DOMAIN bookingDocs :
        \E i \in DOMAIN reqs : reqs[i].booking = k /\ reqs[i].token.userId = Str(u)}

\* C27: every Booking was created by exactly one request and its user field
\* is the userId of that request's token; and a history read lists exactly
\* the Bookings created by requests of the reading caller, no other's.
C27_OwnerIsCaller ==
    /\ [](\A k \in DOMAIN bookingDocs :
            /\ Cardinality({i \in DOMAIN reqs : reqs[i].booking = k}) = 1
            /\ \A i \in DOMAIN reqs :
                   reqs[i].booking = k => bookingDocs[k].user = reqs[i].token.userId.chars)
    /\ [][\A h \in DOMAIN hists :
             (hists[h].pc = "find" /\ hists'[h].pc = "done" /\ hists'[h].res.status = 200) =>
                 {hists'[h].result[n] : n \in DOMAIN hists'[h].result}
                     = CreatedBy(hists[h].token.userId.chars)]_vars

\* both users have a Booking and one of them read a history that lists their
\* own and not the other's
C27_Witness ==
    /\ CreatedBy(userA) # {}
    /\ CreatedBy(userB) # {}
    /\ \E h \in DOMAIN hists :
           /\ hists[h].res.status = 200
           /\ hists[h].result # <<>>
           /\ Len(hists[h].result) < Len(bookingDocs)

\* ------------------------------- ensureAdminUser (admin.js and admin-setup)
MaxAdminRuns == 2     \* runs of ensureAdminUser started, over both copies

CustomPassword == "secret"

\* ADMIN_PASSWORD as each copy reads it: a constant in routes/admin.js,
\* process.env.ADMIN_PASSWORD ?? the same default in services/admin-setup
AdminPassword(c) == IF c = "route" THEN DefaultPassword ELSE env.ADMIN_PASSWORD

\* bcrypt.compare(password, hash)
compare(password, hash) == hash[1] = password

\* AdminUser.findOne({ phone: normalizedPhone })
FindAdmin == {a \in adminUserDocs : a.phone = AdminPhone}

\* a call of ensureAdminUser of copy c while none of its runs is in flight
ensureAdminUser(c) ==
    /\ ~ensure[c].promise
    /\ adminRuns < MaxAdminRuns
    /\ adminRuns' = adminRuns + 1
    /\ ensure' = [ensure EXCEPT ![c] =
           [promise |-> TRUE, pc |-> "find", run |-> adminRuns + 1, passwordHash |-> <<>>]]
    /\ Starts(c)
    /\ UNCHANGED <<adminUserDocs, userDocs, env, dels>>
    /\ UNCHANGED <<locationDocs, artistDocs, availabilityDocs, bookingDocs, reqs, faults,
                   gets, hists, seeding, tz, now>>

\* if (ensureAdminPromise) return ensureAdminPromise
awaitAdminUser(c) ==
    /\ ensure[c].promise
    /\ awaiting[c] < MaxAwaiting
    /\ awaiting' = [awaiting EXCEPT ![c] = @ + 1]
    /\ UNCHANGED <<inflight, adminState, dels>>
    /\ UNCHANGED <<locationDocs, artistDocs, availabilityDocs, bookingDocs, reqs, faults,
                   gets, hists, seeding, tz, now>>

\* finally keeps ensureAdminPromise
EnsureSettledKeepsPromise == [NotEnsuring EXCEPT !.promise = TRUE]

\* finally clears ensureAdminPromise
EnsureSettled == NotEnsuring

\* the run of copy c settles: its promise is cleared and its callers go on
AdminSettles(c) ==
    /\ ensure' = [ensure EXCEPT ![c] = EnsureSettled]
    /\ Settles(c)

\* await AdminUser.findOne, then bcrypt.compare or bcrypt.hash, which touch no
\* collection: without an admin the run goes on to create one, with an admin
\* whose hash does not fit the password to save a new hash, and otherwise to
\* copy the hash it has read to the User
AdminFind(c) ==
    /\ ensure[c].pc = "find"
    /\ LET fresh == Hash(AdminPassword(c), ensure[c].run)
       IN ensure' = [ensure EXCEPT ![c] =
              IF FindAdmin = {}
                  THEN [@ EXCEPT !.pc = "create", !.passwordHash = fresh]
              ELSE LET admin == CHOOSE a \in FindAdmin : TRUE
                   IN IF ~compare(AdminPassword(c), admin.passwordHash)
                          THEN [@ EXCEPT !.pc = "save", !.passwordHash = fresh]
                      ELSE [@ EXCEPT !.pc = "sync", !.passwordHash = admin.passwordHash]]
    /\ UNCHANGED <<inflight, awaiting, adminUserDocs, userDocs, adminRuns, env, dels>>
    /\ UNCHANGED <<locationDocs, artistDocs, availabilityDocs, bookingDocs, reqs, faults,
                   gets, hists, seeding, tz, now>>

\* await AdminUser.create(...): the unique index on phone rejects a second
\* admin, and the rejection ends the run
AdminCreate(c) ==
    /\ ensure[c].pc = "create"
    /\ IF FindAdmin # {}
           THEN /\ AdminSettles(c)
                /\ UNCHANGED adminUserDocs
       ELSE /\ adminUserDocs' = adminUserDocs \cup
                    {[phone |-> AdminPhone, passwordHash |-> ensure[c].passwordHash]}
            /\ ensure' = [ensure EXCEPT ![c].pc = "sync"]
            /\ UNCHANGED <<inflight, awaiting>>
    /\ UNCHANGED <<userDocs, adminRuns, env, dels>>
    /\ UNCHANGED <<locationDocs, artistDocs, availabilityDocs, bookingDocs, reqs, faults,
                   gets, hists, seeding, tz, now>>

\* admin.passwordHash = passwordHash; await admin.save()
AdminSave(c) ==
    /\ ensure[c].pc = "save"
    /\ adminUserDocs' = (adminUserDocs \ FindAdmin) \cup
           {[a EXCEPT !.passwordHash = ensure[c].passwordHash] : a \in FindAdmin}
    /\ ensure' = [ensure EXCEPT ![c].pc = "sync"]
    /\ UNCHANGED <<inflight, awaiting, userDocs, adminRuns, env, dels>>
    /\ UNCHANGED <<locationDocs, artistDocs, availabilityDocs, bookingDocs, reqs, faults,
                   gets, hists, seeding, tz, now>>

\* await syncUserCredentials(passwordHash): User.findOneAndUpdate with upsert,
\* after which the run returns
AdminSync(c) ==
    /\ ensure[c].pc = "sync"
    /\ userDocs' = {u \in userDocs : u.phone # AdminPhone} \cup
           {[phone |-> AdminPhone, passwordHash |-> ensure[c].passwordHash]}
    /\ AdminSettles(c)
    /\ UNCHANGED <<adminUserDocs, adminRuns, env, dels>>
    /\ UNCHANGED <<locationDocs, artistDocs, availabilityDocs, bookingDocs, reqs, faults,
                   gets, hists, seeding, tz, now>>

\* an awaited call of the run rejects: catch logs it and finally settles
AdminFault(c) ==
    /\ ensure[c].promise
    /\ faults < MaxFaults
    /\ faults' = faults + 1
    /\ AdminSettles(c)
    /\ UNCHANGED <<adminUserDocs, userDocs, adminRuns, env, dels>>
    /\ UNCHANGED <<locationDocs, artistDocs, availabilityDocs, bookingDocs, reqs,
                   gets, hists, seeding, tz, now>>

\* a process that starts on an empty database
InitBoot ==
    /\ locationDocs = {}
    /\ artistDocs = {}
    /\ availabilityDocs = {}
    /\ bookingDocs = <<>>
    /\ reqs = <<>>
    /\ faults = 0
    /\ gets = <<>>
    /\ hists = <<>>
    /\ seeding = NotSeeding
    /\ tz = 0
    /\ now = 0
    /\ inflight = [n \in Initializers |-> 0]
    /\ awaiting = [n \in Initializers |-> 0]
    /\ ensure = [c \in AdminCopies |-> NotEnsuring]
    /\ adminUserDocs = {}
    /\ userDocs = {}
    /\ adminRuns = 0
    /\ env \in {[ADMIN_PASSWORD |-> p] : p \in {DefaultPassword, CustomPassword}}
    /\ dels = <<>>

\* the two copies of ensureAdminUser beside each other
NextAdminUser ==
    \/ \E c \in AdminCopies : ensureAdminUser(c)
    \/ \E c \in AdminCopies : awaitAdminUser(c)
    \/ \E c \in AdminCopies : AdminFind(c)
    \/ \E c \in AdminCopies : AdminCreate(c)
    \/ \E c \in AdminCopies : AdminSave(c)
    \/ \E c \in AdminCopies : AdminSync(c)

SpecAdminUser == InitBoot /\ [][NextAdminUser]_vars

\* the initializers of one process, with failures
NextBoot ==
    \/ ensureDemoData
    \/ awaitDemoData
    \/ SeedCount
    \/ SeedLocations
    \/ SeedArtists
    \/ SeedInsert
    \/ SeedFault
    \/ \E c \in AdminCopies : ensureAdminUser(c)
    \/ \E c \in AdminCopies : awaitAdminUser(c)
    \/ \E c \in AdminCopies : AdminFind(c)
    \/ \E c \in AdminCopies : AdminCreate(c)
    \/ \E c \in AdminCopies : AdminSave(c)
    \/ \E c \in AdminCopies : AdminSync(c)
    \/ \E c \in AdminCopies : AdminFault(c)

SpecBoot == InitBoot /\ [][NextBoot]_vars

\* the memoized promise of initializer n is set
Promise(n) == IF n = "demo" THEN seeding.promise ELSE ensure[n].promise

\* C24: of each memoized initializer (ensureDemoData, each ensureAdminUser)
\* at most one run is in flight; its promise is set exactly while a run is in
\* flight, so it is cleared when the run settles, by success or by failure;
\* and a call during a run is handed that run and starts no other.
C24_OneRunInFlight ==
    /\ [](\A n \in Initializers :
            /\ inflight[n] <= 1
            /\ Promise(n) <=> inflight[n] = 1
            /\ awaiting[n] > 0 => inflight[n] = 1)
    /\ [][\A n \in Initializers :
             awaiting'[n] > awaiting[n] => (inflight[n] = 1 /\ inflight'[n] = 1)]_vars

\* after a run of the seeding failed, a new run is in flight with a caller
\* awaiting it, and so is a run of ensureAdminUser
C24_Witness ==
    /\ faults > 0
    /\ locationDocs # {}
    /\ artistDocs = {}
    /\ inflight["demo"] = 1 /\ awaiting["demo"] = 1
    /\ \E c \in AdminCopies : inflight[c] = 1 /\ awaiting[c] = 1

\* C30: whenever no run of ensureAdminUser is in flight and at least one has
\* run, there is exactly one AdminUser with the admin phone and exactly one
\* User with it, and the two have the same passwordHash.
C30_OneAdminSameHash ==
    ((\A c \in AdminCopies : ~ensure[c].promise) /\ adminRuns > 0) =>
        /\ Cardinality(FindAdmin) = 1
        /\ Cardinality({u \in userDocs : u.phone = AdminPhone}) = 1
        /\ \A a \in FindAdmin :
               \A u \in userDocs : u.phone = AdminPhone => u.passwordHash = a.passwordHash

\* the demo data is complete: the artists and every availability record of
\* the seeding exist
DemoDataComplete ==
    /\ \A a \in seedArtists : \E b \in artistDocs : b._id = a._id
    /\ \A n \in DOMAIN seedArray : DuplicateRecord(seedArray[n], availabilityDocs)

\* C29: when a run of ensureDemoData settles without a failure of its own,
\* the demo locations do not exist without their artists and availability
\* records: a run that follows a failed one completes what is missing.
C29_SeedingRecovers ==
    [][(seeding.promise /\ ~seeding'.promise /\ faults' = faults) =>
          (locationDocs' # {} => DemoDataComplete')]_vars

\* ------------------------------------ DELETE /artists/:artistId (admin.js)
MaxDels == 2      \* delete requests in one run

\* requests that passed requireAdminAuth: an artist with availability, and a
\* parameter that is no ObjectId
DelInputs == { Str(temuujin), Str(<<"x">>) }

DelReceive(artistId) ==
    /\ Len(dels) < MaxDels
    /\ LET d == [artistId |-> artistId, pc |-> "count", res |-> NoRes]
       IN dels' = Append(dels, IF ~isValidObjectId(artistId)
                                   THEN Finish(d, Res(400, "bad_artist_id"))
                               ELSE d)
    /\ UNCHANGED <<locationDocs, artistDocs, availabilityDocs, bookingDocs, reqs, faults,
                   gets, hists, seeding, tz, now, inflight, awaiting, adminState>>

\* await Booking.countDocuments({ artist: artistId }); existing > 0 answers 409
DelCount(i) ==
    /\ dels[i].pc = "count"
    /\ LET existingBookings ==
               Cardinality({k \in DOMAIN bookingDocs :
                               bookingDocs[k].artist = dels[i].artistId.chars})
       IN dels' = [dels EXCEPT ![i] =
              IF existingBookings > 0 THEN Finish(@, Res(409, "artist_has_bookings"))
              ELSE [@ EXCEPT !.pc = "delete"]]
    /\ UNCHANGED <<locationDocs, artistDocs, availabilityDocs, bookingDocs, reqs, faults,
                   gets, hists, seeding, tz, now, inflight, awaiting, adminState>>

\* await Artist.findByIdAndDelete(artistId)
DelDelete(i) ==
    /\ dels[i].pc = "delete"
    /\ artistDocs' = {a \in artistDocs : a._id # dels[i].artistId.chars}
    /\ dels' = [dels EXCEPT ![i] = Finish(@, SuccessRes)]
    /\ UNCHANGED <<locationDocs, availabilityDocs, bookingDocs, reqs, faults,
                   gets, hists, seeding, tz, now, inflight, awaiting, adminState>>

\* an awaited call of the handler rejects: the catch block answers 500
DelFault(i) ==
    /\ dels[i].pc \in {"count", "delete"}
    /\ faults < MaxFaults
    /\ faults' = faults + 1
    /\ dels' = [dels EXCEPT ![i] = Finish(@, Res(500, "delete_failed"))]
    /\ UNCHANGED <<locationDocs, artistDocs, availabilityDocs, bookingDocs, reqs,
                   gets, hists, seeding, tz, now, inflight, awaiting, adminState>>

DelBookInputs == { [token |-> UserToken(userA), body |-> BaseBody] }

NextDelete ==
    \/ \E in \in DelBookInputs : Receive(in)
    \/ \E i \in DOMAIN reqs : Lookup(i)
    \/ \E i \in DOMAIN reqs : Claim(i)
    \/ \E i \in DOMAIN reqs : Create(i)
    \/ \E i \in DOMAIN reqs : Populate(i)
    \/ \E i \in DOMAIN reqs : Fault(i)
    \/ \E a \in DelInputs : DelReceive(a)
    \/ \E i \in DOMAIN dels : DelCount(i)
    \/ \E i \in DOMAIN dels : DelDelete(i)
    \/ \E i \in DOMAIN dels : DelFault(i)

SpecDelete == Init /\ [][NextDelete]_vars

\* C28: the artist of every Booking exists: an artist with a Booking is
\* never deleted, however delete and booking requests interleave.
C28_BookedArtistExists ==
    \A k \in DOMAIN bookingDocs :
        \E a \in artistDocs : a._id = bookingDocs[k].artist

====
